---- MODULE Spec2Model ----
(***************************************************************************)
(* ESP-LabNode firmware (main/main.c, main/esp_timer.h): the relay         *)
(* duty-cycle scheduler.  Two FreeRTOS tasks share the global relay_timer  *)
(* and the relay GPIO without any lock:                                    *)
(*   - timer_control_task, the periodic scheduler tick (main.c 720-738);   *)
(*   - the HTTP server task, which runs one URI handler at a time:         *)
(*     timer_handler (POST /api/timer, main.c 614-656) and                 *)
(*     relay_post_handler (POST /api/relay, main.c 556-612).               *)
(* Every access to shared state is one step, so all interleavings of the   *)
(* two tasks and of the FreeRTOS tick interrupt are behaviours.            *)
(*                                                                         *)
(* The same HTTP server task also serves GET /api/sensor, which runs the   *)
(* single-wire DHT decoder read_sensor_safe (main.c 427-530).  The decoder  *)
(* shares no state with the scheduler and is explored on its own, in        *)
(* SpecDHT, against a sensor line that may do anything.                     *)
(*                                                                         *)
(* The machine word is WordBits wide (32 on the target).  The model keeps  *)
(* the arithmetic of the code and scales the word and the unit factors     *)
(* (1000 us per ms, 1000 ms per s) down together so that the clock wraps   *)
(* inside the explored state space.                                        *)
(***************************************************************************)
EXTENDS Integers, Naturals, FiniteSets, Sequences, TLC

\* ---- scale of the model ------------------------------------------------
\* width of uint32_t / TickType_t (32 on the target)
WordBits == 3
\* the factor 1000 of `* 1000` (esp_timer.h:9) and `/ 1000` (main.c:652,723)
UsPerMs == 2
\* the factor 1000 of `atoi(..) * 1000` (main.c:644,649)
MsPerSec == 2
\* portTICK_PERIOD_MS: milliseconds per FreeRTOS tick (sdkconfig)
portTICK_PERIOD_MS == 1
\* largest onDuration/offDuration (seconds) a request carries
MaxSeconds == 1
\* the history counters of elapsed FreeRTOS ticks saturate here
MaxAge == 2
\* width of uint8_t and the bits read per byte (8 on the target): main.c 449
ByteBits == 2
\* DHT_TIMEOUT_US (10000 on the target): main.c 39
DHT_TIMEOUT_US == 1
\* uint8_t data[5] (main.c 467, 507)
NumBytes == 5
\* pdMS_TO_TICKS(100), the FreeRTOS ticks of one vTaskDelay (main.c 736)
DelayTicks == 1
\* largest onDuration/offDuration (seconds) of the scheduler left to run alone
MaxLiveSeconds == 2

Word == 2 ^ WordBits

\* ---- state --------------------------------------------------------------
VARIABLES
    relay_timer,   \* static timer_config_t relay_timer (main.c 75-89)
    relay_gpio,    \* level last written to RELAY_GPIO by gpio_set_level
    tickCount,     \* xTaskGetTickCount(), a TickType_t
    task,          \* timer_control_task: program counter and locals
    httpd,         \* HTTP server task: program counter and request body
    hist,          \* history variables (no effect on the program)
    dht,           \* read_sensor_safe: program counter, locals, pin, interrupts
    dhist          \* history variables of the decoder

vars == <<relay_timer, relay_gpio, tickCount, task, httpd, hist>>

\* ---- clock (esp_timer.h 8-10) -------------------------------------------
\* (int64_t)(xTaskGetTickCount() * portTICK_PERIOD_MS * 1000): the product
\* is computed in TickType_t, so it wraps at the word before it is widened.
esp_timer_get_time == (tickCount * portTICK_PERIOD_MS * UsPerMs) % Word

\* uint32_t x = esp_timer_get_time() / 1000  (main.c 652, 723)
ClockMs == (esp_timer_get_time \div UsPerMs) % Word

\* the next FreeRTOS tick makes the microsecond value wrap
ClockWrapsNext == esp_timer_get_time + portTICK_PERIOD_MS * UsPerMs >= Word

\* uint32_t elapsed = current_time - relay_timer.last_toggle  (main.c 724)
Elapsed(now, last) == (now - last) % Word

\* (uint32_t)(atoi(s) * 1000)  (main.c 644, 649)
DurationMs(n) == (n * MsPerSec) % Word

Min(a, b) == IF a < b THEN a ELSE b

\* ---- request bodies -----------------------------------------------------
\* what the strstr() tests of the handlers see in a body
NoField == -1
EnabledFields == {"true", "false", "none"}
DurationFields == {NoField} \cup (0 .. MaxSeconds)
StateFields == {"on", "off", "none"}

\* The body is a buffer local to the handler: each field is drawn where the
\* handler's strstr() looks for it, and only what later lines use is kept.
NoRequest == [pc |-> "idle", enabled |-> "none", state |-> "none"]

\* ---- initial state ------------------------------------------------------
\* relay_timer initialiser (main.c 83-89)
InitTimer == [enabled |-> FALSE, on_duration |-> 0, off_duration |-> 0,
              last_toggle |-> 0, current_state |-> FALSE]

NoTick == [pc |-> "t722", current_time |-> 0, elapsed |-> 0]

NoPre == [rt |-> InitTimer, gpio |-> 0]

InitHist == [pre |-> NoPre,          \* relay_timer and relay level when the tick began
             interfered |-> FALSE,   \* a handler wrote shared state during the tick
             writes |-> 0,           \* gpio_set_level calls made by the tick
             age |-> 0,              \* FreeRTOS ticks since the clock read held by last_toggle
             wrapT |-> FALSE,        \* the clock wrapped since that read
             readAge |-> 0,          \* FreeRTOS ticks since the tick read current_time
             wrapR |-> FALSE,        \* the clock wrapped since that read
             te |-> -1,              \* true ms from last toggle to current_time (-1: unknown)
             wr |-> FALSE,           \* the clock wrapped between the two
             overridden |-> FALSE,   \* an override returned, no enable request since
             tickOv |-> FALSE]       \* the tick began while overridden

\* ---- decoder state (main.c 427-530) -------------------------------------
Byte == 2 ^ ByteBits

\* the level gpio_get_level reports when it cannot read the pin (main.c 473)
BadLevel == -1

\* what gpio_get_level(DHT_GPIO) can return
Levels == {0, 1, BadLevel}

NoData == [n \in 0 .. (NumBytes - 1) |-> 0]

\* initialize_gpio leaves the sensor pin an input (main.c 115); interrupts are
\* enabled while tasks run
NoRead == [pc |-> "idle",
           dir |-> "input",        \* gpio_set_direction of DHT_GPIO
           drive |-> 1,            \* level last written by gpio_set_level
           intr |-> TRUE,          \* interrupts are enabled
           site |-> "none",        \* the call of dht_wait_for_level in progress
           tries |-> 0,            \* int tries (437)
           i |-> 0,                \* int i of read_sensor_safe (507)
           j |-> 0,                \* int i of dht_read_byte (449)
           data |-> NoData,        \* uint8_t data[5] (467)
           ret |-> "ESP_OK",       \* esp_err_t ret (485)
           result |-> "none",      \* value read_sensor_safe returned
           temperature |-> 0,      \* float temperature (534), in tenths
           humidity |-> 0]         \* float humidity (534), in tenths

InitDhist == [samples |-> << >>,     \* bit samples of the call: was the line high
              bad |-> "none",        \* where the driver returned BadLevel
              timedOut |-> "none",   \* the wait that timed out
              polls |-> 0,           \* samples taken since that time-out
              disables |-> 0,        \* portDISABLE_INTERRUPTS calls of the call
              enables |-> 0,         \* portENABLE_INTERRUPTS calls of the call
              written |-> {}]        \* outputs the call has written

\* initialize_gpio drives the relay low (main.c 118); app_main then creates
\* the server and the timer task (main.c 226-229)
Init ==
    /\ relay_timer = InitTimer
    /\ relay_gpio = 0
    /\ tickCount = 0
    /\ task = NoTick
    /\ httpd = NoRequest
    /\ hist = InitHist
    /\ dht = NoRead
    /\ dhist = InitDhist

\* ---- FreeRTOS tick interrupt -------------------------------------------
TickRead == task.pc \in {"t724", "t726", "t727", "t728", "t729",
                         "t730", "t731", "t732", "t733"}

\* The tick count is read only at 723 and 652, so an increment that happens
\* anywhere else has the effect of one that happens just before the next of
\* these reads: only those are taken.
ClockReadNext == task.pc = "t723" \/ httpd.pc = "h652"

xTaskIncrementTick ==
    /\ ClockReadNext
    /\ tickCount' = (tickCount + 1) % Word
    /\ hist' = [hist EXCEPT
                  !.age = Min(@ + 1, MaxAge),
                  !.wrapT = @ \/ ClockWrapsNext,
                  !.readAge = IF TickRead THEN Min(@ + 1, MaxAge) ELSE 0,
                  !.wrapR = IF TickRead THEN @ \/ ClockWrapsNext ELSE FALSE]
    /\ UNCHANGED <<dht, dhist, relay_timer, relay_gpio, task, httpd>>

\* ---- timer_control_task (main.c 720-738) --------------------------------
\* one action per access to shared state; task.pc names the line to run next;
\* elapsed is not read after the branch is chosen and is cleared there

\* 722: if (relay_timer.enabled)
T722 ==
    /\ task.pc = "t722"
    /\ task' = [task EXCEPT !.pc = IF relay_timer.enabled THEN "t723" ELSE "t736"]
    /\ hist' = [hist EXCEPT !.pre = [rt |-> relay_timer, gpio |-> relay_gpio],
                            !.tickOv = hist.overridden]
    /\ UNCHANGED <<dht, dhist, relay_timer, relay_gpio, tickCount, httpd>>

\* 723: uint32_t current_time = esp_timer_get_time() / 1000
T723 ==
    /\ task.pc = "t723"
    /\ task' = [task EXCEPT !.pc = "t724", !.current_time = ClockMs]
    /\ hist' = [hist EXCEPT
                  !.te = IF hist.age < MaxAge
                         THEN hist.age * portTICK_PERIOD_MS ELSE -1,
                  !.wr = hist.wrapT]
    /\ UNCHANGED <<dht, dhist, relay_timer, relay_gpio, tickCount, httpd>>

\* 724: uint32_t elapsed = current_time - relay_timer.last_toggle
T724 ==
    /\ task.pc = "t724"
    /\ task' = [task EXCEPT !.pc = "t726",
                  !.elapsed = Elapsed(task.current_time, relay_timer.last_toggle)]
    /\ UNCHANGED <<dht, dhist, relay_timer, relay_gpio, tickCount, httpd, hist>>

\* 726: if (relay_timer.current_state && elapsed >= relay_timer.on_duration)
\* (variant: the comparison written with > )
OnPhaseOver_strict == relay_timer.current_state /\ task.elapsed > relay_timer.on_duration

OnPhaseOver == relay_timer.current_state /\ task.elapsed >= relay_timer.on_duration

T726 ==
    /\ task.pc = "t726"
    /\ task' = IF OnPhaseOver THEN [task EXCEPT !.pc = "t727", !.elapsed = 0]
                ELSE [task EXCEPT !.pc = "t730"]
    /\ UNCHANGED <<dht, dhist, relay_timer, relay_gpio, tickCount, httpd, hist>>

\* 727: gpio_set_level(RELAY_GPIO, 0)
T727 ==
    /\ task.pc = "t727"
    /\ relay_gpio' = 0
    /\ task' = [task EXCEPT !.pc = "t728"]
    /\ hist' = [hist EXCEPT !.writes = @ + 1]
    /\ UNCHANGED <<dht, dhist, relay_timer, tickCount, httpd>>

\* 728: relay_timer.current_state = false
T728 ==
    /\ task.pc = "t728"
    /\ relay_timer' = [relay_timer EXCEPT !.current_state = FALSE]
    /\ task' = [task EXCEPT !.pc = "t729"]
    /\ UNCHANGED <<dht, dhist, relay_gpio, tickCount, httpd, hist>>

\* where the task goes after the first branch of the if / else if
\* (variant: a second `if` in place of `else if`)
AfterOnBranch_secondIf == "t730"

AfterOnBranch == "t736"

\* 729: relay_timer.last_toggle = current_time
T729 ==
    /\ task.pc = "t729"
    /\ relay_timer' = [relay_timer EXCEPT !.last_toggle = task.current_time]
    /\ task' = [task EXCEPT !.pc = AfterOnBranch]
    /\ hist' = [hist EXCEPT !.age = hist.readAge, !.wrapT = hist.wrapR]
    /\ UNCHANGED <<dht, dhist, relay_gpio, tickCount, httpd>>

\* 730: else if (!relay_timer.current_state && elapsed >= relay_timer.off_duration)
\* (variant: the off phase timed with on_duration)
OffPhaseOver_onDuration == ~relay_timer.current_state /\ task.elapsed >= relay_timer.on_duration

OffPhaseOver == ~relay_timer.current_state /\ task.elapsed >= relay_timer.off_duration

T730 ==
    /\ task.pc = "t730"
    /\ task' = [task EXCEPT !.pc = IF OffPhaseOver THEN "t731" ELSE "t736",
                            !.elapsed = 0]
    /\ UNCHANGED <<dht, dhist, relay_timer, relay_gpio, tickCount, httpd, hist>>

\* 731: gpio_set_level(RELAY_GPIO, 1)
T731 ==
    /\ task.pc = "t731"
    /\ relay_gpio' = 1
    /\ task' = [task EXCEPT !.pc = "t732"]
    /\ hist' = [hist EXCEPT !.writes = @ + 1]
    /\ UNCHANGED <<dht, dhist, relay_timer, tickCount, httpd>>

\* 732: relay_timer.current_state = true
T732 ==
    /\ task.pc = "t732"
    /\ relay_timer' = [relay_timer EXCEPT !.current_state = TRUE]
    /\ task' = [task EXCEPT !.pc = "t733"]
    /\ UNCHANGED <<dht, dhist, relay_gpio, tickCount, httpd, hist>>

\* 733: relay_timer.last_toggle = current_time
T733 ==
    /\ task.pc = "t733"
    /\ relay_timer' = [relay_timer EXCEPT !.last_toggle = task.current_time]
    /\ task' = [task EXCEPT !.pc = "t736"]
    /\ hist' = [hist EXCEPT !.age = hist.readAge, !.wrapT = hist.wrapR]
    /\ UNCHANGED <<dht, dhist, relay_gpio, tickCount, httpd>>

\* 736: vTaskDelay(pdMS_TO_TICKS(100)): the tick is over; the task blocks and
\* the loop starts the next tick, at 722, when the delay has expired
T736 ==
    /\ task.pc = "t736"
    /\ task' = NoTick
    /\ hist' = [hist EXCEPT !.pre = NoPre, !.interfered = FALSE, !.writes = 0,
                            !.readAge = 0, !.wrapR = FALSE, !.te = -1,
                            !.wr = FALSE, !.tickOv = FALSE]
    /\ UNCHANGED <<dht, dhist, relay_timer, relay_gpio, tickCount, httpd>>

timer_control_task ==
    \/ T722 \/ T723 \/ T724 \/ T726 \/ T727 \/ T728 \/ T729
    \/ T730 \/ T731 \/ T732 \/ T733 \/ T736

\* ---- HTTP server task ---------------------------------------------------
\* the tick is between its read of enabled (722) and its vTaskDelay (736)
TickInProgress == task.pc # "t722"

\* a handler writes shared state
\* (what the history recorded of an undisturbed tick is dropped)
HandlerWrites ==
    IF TickInProgress
    THEN [hist EXCEPT !.interfered = TRUE, !.pre = NoPre, !.te = -1, !.wr = FALSE]
    ELSE hist

\* -- timer_handler, POST /api/timer (main.c 626-654) --

\* the enabled field of the body, as the tests of 634 and 636 see it
\* (variant: enabling also marks the relay as on)
TimerEnabledField_setsState(e) ==
    /\ relay_timer' = [relay_timer EXCEPT
                         !.enabled = IF e = "true" THEN TRUE
                                     ELSE IF e = "false" THEN FALSE
                                     ELSE @,
                         !.current_state = IF e = "true" THEN TRUE ELSE @]
    /\ httpd' = [httpd EXCEPT !.enabled = e,
                              !.pc = IF e = "false" THEN "h638" ELSE "h642"]

TimerEnabledField(e) ==
    /\ relay_timer' = [relay_timer EXCEPT
                         !.enabled = IF e = "true" THEN TRUE
                                     ELSE IF e = "false" THEN FALSE
                                     ELSE @]
    /\ httpd' = [httpd EXCEPT !.enabled = e,
                              !.pc = IF e = "false" THEN "h638" ELSE "h642"]

\* 628-637: httpd_req_recv delivers a body;
\*          if (strstr("enabled":true)) enabled = true;
\*          else if (strstr("enabled":false)) { enabled = false; ...
H634 ==
    /\ httpd.pc = "idle"
    /\ \E e \in EnabledFields :
         /\ TimerEnabledField(e)
         /\ hist' = IF e = "none" THEN hist
                    ELSE [HandlerWrites EXCEPT !.overridden = @ /\ e # "true"]
    /\ UNCHANGED <<dht, dhist, relay_gpio, tickCount, task>>

\* 638: gpio_set_level(RELAY_GPIO, 0)
H638 ==
    /\ httpd.pc = "h638"
    /\ relay_gpio' = 0
    /\ httpd' = [httpd EXCEPT !.pc = "h639"]
    /\ hist' = HandlerWrites
    /\ UNCHANGED <<dht, dhist, relay_timer, tickCount, task>>

\* 639: relay_timer.current_state = false
H639 ==
    /\ httpd.pc = "h639"
    /\ relay_timer' = [relay_timer EXCEPT !.current_state = FALSE]
    /\ httpd' = [httpd EXCEPT !.pc = "h642"]
    /\ hist' = HandlerWrites
    /\ UNCHANGED <<dht, dhist, relay_gpio, tickCount, task>>

\* 642-645: if (on_dur) relay_timer.on_duration = atoi(on_dur + 13) * 1000
H642 ==
    /\ httpd.pc = "h642"
    /\ \E n \in DurationFields :
         /\ relay_timer' = IF n = NoField THEN relay_timer
                           ELSE [relay_timer EXCEPT !.on_duration = DurationMs(n)]
         /\ hist' = IF n = NoField THEN hist ELSE HandlerWrites
    /\ httpd' = [httpd EXCEPT !.pc = "h647"]
    /\ UNCHANGED <<dht, dhist, relay_gpio, tickCount, task>>

\* 647-650: if (off_dur) relay_timer.off_duration = atoi(off_dur + 14) * 1000
H647 ==
    /\ httpd.pc = "h647"
    /\ \E n \in DurationFields :
         /\ relay_timer' = IF n = NoField THEN relay_timer
                           ELSE [relay_timer EXCEPT !.off_duration = DurationMs(n)]
         /\ hist' = IF n = NoField THEN hist ELSE HandlerWrites
    /\ httpd' = [httpd EXCEPT !.pc = "h652"]
    /\ UNCHANGED <<dht, dhist, relay_gpio, tickCount, task>>

\* 652: relay_timer.last_toggle = esp_timer_get_time() / 1000
H652 ==
    /\ httpd.pc = "h652"
    /\ relay_timer' = [relay_timer EXCEPT !.last_toggle = ClockMs]
    /\ httpd' = [httpd EXCEPT !.pc = "h653"]
    /\ hist' = [HandlerWrites EXCEPT !.age = 0, !.wrapT = FALSE]
    /\ UNCHANGED <<dht, dhist, relay_gpio, tickCount, task>>

\* 653-655: httpd_resp_sendstr; return ESP_OK
H653 ==
    /\ httpd.pc = "h653"
    /\ httpd' = NoRequest
    /\ UNCHANGED <<dht, dhist, relay_timer, relay_gpio, tickCount, task, hist>>

timer_handler ==
    \/ H634 \/ H638 \/ H639 \/ H642 \/ H647 \/ H652 \/ H653

\* -- relay_post_handler, POST /api/relay (main.c 556-612) --

\* 583-589: success and state as parsed from the body
\* (variant: success is initialised to true)
Success_anyBody(s) == TRUE

Success(s) == s \in {"on", "off"}
State == IF httpd.state = "on" THEN 1 ELSE 0

\* 592: relay_timer.enabled = false
\* (variant: the override leaves the scheduler enabled)
RelayDisablesTimer_keepsEnabled == relay_timer

RelayDisablesTimer == [relay_timer EXCEPT !.enabled = FALSE]

\* 571-592: httpd_req_recv delivers a body, which is parsed;
\*          if (success) relay_timer.enabled = false
H591 ==
    /\ httpd.pc = "idle"
    /\ \E s \in StateFields :
         /\ relay_timer' = IF Success(s) THEN RelayDisablesTimer ELSE relay_timer
         /\ httpd' = [NoRequest EXCEPT !.state = s,
                                       !.pc = IF Success(s) THEN "h593" ELSE "h596"]
         /\ hist' = IF Success(s) THEN HandlerWrites ELSE hist
    /\ UNCHANGED <<dht, dhist, relay_gpio, tickCount, task>>

\* 593: gpio_set_level(RELAY_GPIO, state)
H593 ==
    /\ httpd.pc = "h593"
    /\ relay_gpio' = State
    /\ httpd' = [httpd EXCEPT !.pc = "h596"]
    /\ hist' = HandlerWrites
    /\ UNCHANGED <<dht, dhist, relay_timer, tickCount, task>>

\* 600-608: the status of the response
Response(s) == IF Success(s) THEN "ok" ELSE "error"

\* 596-611: the response is sent and the handler returns
H596 ==
    /\ httpd.pc = "h596"
    /\ httpd' = NoRequest
    /\ hist' = [hist EXCEPT !.overridden = @ \/ Success(httpd.state)]
    /\ UNCHANGED <<dht, dhist, relay_timer, relay_gpio, tickCount, task>>

relay_post_handler == H591 \/ H593 \/ H596

\* ---- the program --------------------------------------------------------
\* (no sensor request is served in this specification)
Next ==
    \/ xTaskIncrementTick
    \/ timer_control_task
    \/ timer_handler
    \/ relay_post_handler

Spec == Init /\ [][Next]_vars

\* ---- sensor_get_handler / read_sensor_safe (main.c 427-535) -------------
\* one action per pin access, interrupt switch or return; dht.pc names the
\* line to run next

\* The line is not driven by the program while it is sampled: every sample
\* is any level.  The driver fails (BadLevel) at most once in a call.
Sampled == IF dhist.bad = "none" THEN Levels ELSE {0, 1}

\* the history of one sample taken at `where`
Sample(h, l, where) ==
    [h EXCEPT !.bad = IF l = BadLevel THEN where ELSE @,
              !.polls = IF h.timedOut = "none" THEN @ ELSE @ + 1]

\* 534-535, 467-471: the handler calls read_sensor_safe, which clears data,
\* makes the pin an input and lets it settle
D470 ==
    /\ dht.pc = "idle"
    /\ dht' = [dht EXCEPT !.pc = "d473", !.dir = "input"]
    /\ UNCHANGED <<dhist, vars>>

\* 473-476: if (gpio_get_level(DHT_GPIO) == -1) return ESP_ERR_NOT_FOUND
D473 ==
    /\ dht.pc = "d473"
    /\ \E l \in Sampled :
         /\ dht' = IF l = -1
                   THEN [dht EXCEPT !.pc = "d535", !.result = "ESP_ERR_NOT_FOUND"]
                   ELSE [dht EXCEPT !.pc = "d479"]
         /\ dhist' = Sample(dhist, l, "d473")
    /\ UNCHANGED vars

\* 479: portDISABLE_INTERRUPTS()
D479 ==
    /\ dht.pc = "d479"
    /\ dht' = [dht EXCEPT !.pc = "d428", !.intr = FALSE]
    /\ dhist' = [dhist EXCEPT !.disables = @ + 1]
    /\ UNCHANGED vars

\* 428: gpio_set_direction(DHT_GPIO, GPIO_MODE_OUTPUT)
D428 ==
    /\ dht.pc = "d428"
    /\ dht' = [dht EXCEPT !.pc = "d429", !.dir = "output"]
    /\ UNCHANGED <<dhist, vars>>

\* 429-430: gpio_set_level(DHT_GPIO, 0); esp_rom_delay_us(DHT_START_SIGNAL_US)
D429 ==
    /\ dht.pc = "d429"
    /\ dht' = [dht EXCEPT !.pc = "d431", !.drive = 0]
    /\ UNCHANGED <<dhist, vars>>

\* 431-432: gpio_set_level(DHT_GPIO, 1); esp_rom_delay_us(40)
D431 ==
    /\ dht.pc = "d431"
    /\ dht' = [dht EXCEPT !.pc = "d433", !.drive = 1]
    /\ UNCHANGED <<dhist, vars>>

\* the pin mode the start signal ends in
\* (variant: the pin is left an output)
StartSignalEnds_output == "output"

StartSignalEnds == "input"

\* a call of dht_wait_for_level begins: int tries = 0 (437)
Wait(d, site) == [d EXCEPT !.pc = "d438", !.site = site, !.tries = 0]

\* 433, 485: gpio_set_direction(DHT_GPIO, GPIO_MODE_INPUT);
\*           ret = dht_wait_for_level(0, DHT_TIMEOUT_US)
D433 ==
    /\ dht.pc = "d433"
    /\ dht' = Wait([dht EXCEPT !.dir = StartSignalEnds], "w485")
    /\ UNCHANGED <<dhist, vars>>

\* the level each call of dht_wait_for_level waits for (485, 493, 500, 450, 458)
WaitLevel(site) == IF site \in {"w493", "w450"} THEN 1 ELSE 0

\* where read_sensor_safe goes when a wait returned ESP_ERR_TIMEOUT
\* (486, 494, 501; 451 and 459 return to 509)
OnTimeout(site) ==
    IF site = "w485" THEN "d487"
    ELSE IF site = "w493" THEN "d495"
    ELSE IF site = "w500" THEN "d502"
    ELSE "d510"

\* what follows a wait that returned ESP_OK
OnOk(d) ==
    IF d.site = "w485" THEN Wait(d, "w493")
    ELSE IF d.site = "w493" THEN Wait(d, "w500")
    \* 507-508: for (i = 0 ..) dht_read_byte(&data[i])
    ELSE IF d.site = "w500" THEN [d EXCEPT !.pc = "d448", !.site = "none",
                                           !.tries = 0, !.i = 0]
    \* 453: esp_rom_delay_us(40)
    ELSE IF d.site = "w450" THEN [d EXCEPT !.pc = "d454", !.site = "none",
                                           !.tries = 0]
    \* 449: i++ < 8: the next bit
    ELSE IF d.j + 1 < ByteBits THEN Wait([d EXCEPT !.j = @ + 1], "w450")
    \* 462, 507: return ESP_OK; i++ < 5: the next byte
    ELSE IF d.i + 1 < NumBytes THEN [d EXCEPT !.pc = "d448", !.site = "none",
                                              !.tries = 0, !.i = @ + 1, !.j = 0]
    ELSE [d EXCEPT !.pc = "d516", !.site = "none", !.tries = 0, !.j = 0]

\* 439: if (tries++ > timeout_us)
\* (variant: tries is of a type that wraps before it exceeds the bound)
TriesAfterPoll_wraps(tries) == (tries + 1) % (DHT_TIMEOUT_US + 1)

TriesAfterPoll(tries) == tries + 1

\* 438-444: one poll of dht_wait_for_level
D438 ==
    /\ dht.pc = "d438"
    /\ \E l \in Sampled :
         /\ dht' = IF l = WaitLevel(dht.site) THEN [OnOk(dht) EXCEPT !.ret = "ESP_OK"]
                   ELSE IF dht.tries > DHT_TIMEOUT_US
                        THEN [dht EXCEPT !.pc = OnTimeout(dht.site), !.tries = 0,
                                         !.ret = "ESP_ERR_TIMEOUT"]
                   ELSE [dht EXCEPT !.tries = TriesAfterPoll(dht.tries)]
         /\ dhist' = [Sample(dhist, l, dht.site) EXCEPT
                        !.timedOut = IF l # WaitLevel(dht.site)
                                        /\ dht.tries > DHT_TIMEOUT_US
                                     THEN dht.site ELSE @]
    /\ UNCHANGED vars

\* 448: *data = 0
D448 ==
    /\ dht.pc = "d448"
    /\ dht' = Wait([dht EXCEPT !.data[dht.i] = 0, !.j = 0], "w450")
    /\ UNCHANGED <<dhist, vars>>

\* 454-457: *data <<= 1; if (gpio_get_level(DHT_GPIO) == 1) *data |= 1
\* (variant: the bit is put in from the top, least significant bit first)
ShiftIn_lsbFirst(byte, l) ==
    (byte \div 2) + (IF l = 1 THEN Byte \div 2 ELSE 0)

ShiftIn(byte, l) == ((byte * 2) % Byte) + (IF l = 1 THEN 1 ELSE 0)

\* 454-458: the bit is sampled and shifted in; dht_wait_for_level(0, ..)
D454 ==
    /\ dht.pc = "d454"
    /\ \E l \in Sampled :
         /\ dht' = Wait([dht EXCEPT !.data[dht.i] = ShiftIn(@, l)], "w458")
         /\ dhist' = [Sample(dhist, l, "d455") EXCEPT
                        !.samples = Append(@, l = 1)]
    /\ UNCHANGED vars

\* the error of a first handshake wait that timed out (489)
\* (variant: the wait's own error is passed on)
NoResponse_passesRet(ret) == ret

NoResponse(ret) == "ESP_ERR_NOT_FOUND"

\* portENABLE_INTERRUPTS(); return e
ReturnEnabled(e) ==
    /\ dht' = [dht EXCEPT !.pc = "d535", !.intr = TRUE, !.result = e]
    /\ dhist' = [dhist EXCEPT !.enables = @ + 1]

\* 487-489: portENABLE_INTERRUPTS(); return ESP_ERR_NOT_FOUND
D487 ==
    /\ dht.pc = "d487"
    /\ ReturnEnabled(NoResponse(dht.ret))
    /\ UNCHANGED vars

\* 495-496: portENABLE_INTERRUPTS(); return ret
D495 ==
    /\ dht.pc = "d495"
    /\ ReturnEnabled(dht.ret)
    /\ UNCHANGED vars

\* 502-503: portENABLE_INTERRUPTS(); return ret
D502 ==
    /\ dht.pc = "d502"
    /\ ReturnEnabled(dht.ret)
    /\ UNCHANGED vars

\* what the failure path of the byte loop does to the interrupts (510)
\* (variant: the portENABLE_INTERRUPTS of line 510 is missing)
ByteFailure_leavesDisabled ==
    /\ dht' = [dht EXCEPT !.pc = "d535", !.result = dht.ret]
    /\ UNCHANGED dhist

ByteFailure == ReturnEnabled(dht.ret)

\* 510-512: portENABLE_INTERRUPTS(); return ret
D510 ==
    /\ dht.pc = "d510"
    /\ ByteFailure
    /\ UNCHANGED vars

\* 516: portENABLE_INTERRUPTS()
D516 ==
    /\ dht.pc = "d516"
    /\ dht' = [dht EXCEPT !.pc = "d519", !.intr = TRUE]
    /\ dhist' = [dhist EXCEPT !.enables = @ + 1]
    /\ UNCHANGED vars

\* 519: (data[0] + data[1] + data[2] + data[3]) & 0xFF
\* (variant: the sum is not masked)
Checksum_unmasked(d) == d[0] + d[1] + d[2] + d[3]

Checksum(d) == (d[0] + d[1] + d[2] + d[3]) % Byte

\* 520-521: ESP_LOGE; return ESP_ERR_INVALID_CRC
\* (variant: humidity is converted before the checksum is verified)
ChecksumFailed_humidityWritten ==
    /\ dht' = [dht EXCEPT !.pc = "d535", !.result = "ESP_ERR_INVALID_CRC",
                          !.humidity = 10 * dht.data[0] + dht.data[1]]
    /\ dhist' = [dhist EXCEPT !.written = @ \cup {"humidity"}]

ChecksumFailed ==
    /\ dht' = [dht EXCEPT !.pc = "d535", !.result = "ESP_ERR_INVALID_CRC"]
    /\ UNCHANGED dhist

\* 519-522: if (data[4] != checksum) return ESP_ERR_INVALID_CRC
D519 ==
    /\ dht.pc = "d519"
    /\ IF dht.data[4] # Checksum(dht.data)
       THEN ChecksumFailed
       ELSE /\ dht' = [dht EXCEPT !.pc = "d525"]
            /\ UNCHANGED dhist
    /\ UNCHANGED vars

\* data[a] + data[b] * 0.1, in tenths (525, 526)
\* (variant: the value is clamped to a percentage)
Tenths_clamped(d, a, b) ==
    IF 10 * d[a] + d[b] > 10 * (Byte \div 2) THEN 10 * (Byte \div 2)
    ELSE 10 * d[a] + d[b]

Tenths(d, a, b) == 10 * d[a] + d[b]

\* 525: *humidity = data[0] + data[1] * 0.1
D525 ==
    /\ dht.pc = "d525"
    /\ dht' = [dht EXCEPT !.pc = "d526", !.humidity = Tenths(dht.data, 0, 1)]
    /\ dhist' = [dhist EXCEPT !.written = @ \cup {"humidity"}]
    /\ UNCHANGED vars

\* 526-529: *temperature = data[2] + data[3] * 0.1; return ESP_OK
D526 ==
    /\ dht.pc = "d526"
    /\ dht' = [dht EXCEPT !.pc = "d535", !.temperature = Tenths(dht.data, 2, 3),
                          !.result = "ESP_OK"]
    /\ dhist' = [dhist EXCEPT !.written = @ \cup {"temperature"}]
    /\ UNCHANGED vars

read_sensor_safe ==
    \/ D473 \/ D479 \/ D428 \/ D429 \/ D431 \/ D433 \/ D438 \/ D448 \/ D454
    \/ D487 \/ D495 \/ D502 \/ D510 \/ D516 \/ D519 \/ D525 \/ D526

\* 535-553: the handler has the result and answers; temperature, humidity and
\* data are locals of the calls that end here
D535 ==
    /\ dht.pc = "d535"
    /\ dht' = [NoRead EXCEPT !.dir = dht.dir, !.drive = dht.drive,
                             !.intr = dht.intr]
    /\ dhist' = InitDhist
    /\ UNCHANGED vars

sensor_get_handler == D470 \/ read_sensor_safe \/ D535

\* (no timer or relay request is served in this specification, and the
\* scheduler is disabled)
NextDHT == sensor_get_handler

dvars == <<dht, dhist, vars>>

SpecDHT == Init /\ [][NextDHT]_dvars

\* the decoder keeps running: it busy-waits with interrupts disabled, and
\* vTaskDelay (471) returns
SpecDHTFair == SpecDHT /\ WF_dvars(read_sensor_safe)

\* ---- the scheduler left alone (main.c 720-738) -----------------------------
\* The state a timer request that enables the scheduler has left: the relay
\* in either phase, any durations, last_toggle the clock value of 652.
InitLive ==
    /\ tickCount \in 0 .. (Word - 1)
    /\ \E on, off \in 0 .. MaxLiveSeconds : \E cs \in BOOLEAN :
         relay_timer = [enabled |-> TRUE, on_duration |-> DurationMs(on),
                        off_duration |-> DurationMs(off),
                        last_toggle |-> ClockMs, current_state |-> cs]
    /\ relay_gpio = IF relay_timer.current_state THEN 1 ELSE 0
    /\ task = NoTick
    /\ httpd = NoRequest
    /\ hist = InitHist
    /\ dht = NoRead
    /\ dhist = InitDhist

\* the microsecond value wraps within the next k increments of the tick count
ClockWrapsWithin(k) ==
    \E n \in 0 .. (k - 1) :
        (((tickCount + n) * portTICK_PERIOD_MS * UsPerMs) % Word)
            + portTICK_PERIOD_MS * UsPerMs >= Word

\* 736: vTaskDelay(pdMS_TO_TICKS(100)), on time: the body of the loop runs
\* within one period of the tick interrupt, the task sleeps for DelayTicks
\* increments of the tick count and runs again at once
vTaskDelay ==
    /\ task.pc = "t736"
    /\ tickCount' = (tickCount + DelayTicks) % Word
    /\ task' = NoTick
    /\ hist' = [hist EXCEPT !.pre = NoPre, !.interfered = FALSE, !.writes = 0,
                            !.readAge = 0, !.wrapR = FALSE, !.te = -1,
                            !.wr = FALSE, !.tickOv = FALSE,
                            !.age = Min(@ + DelayTicks, MaxAge),
                            !.wrapT = @ \/ ClockWrapsWithin(DelayTicks)]
    /\ UNCHANGED <<dht, dhist, relay_timer, relay_gpio, httpd>>

\* (no request arrives)
NextLive ==
    \/ T722 \/ T723 \/ T724 \/ T726 \/ T727 \/ T728 \/ T729
    \/ T730 \/ T731 \/ T732 \/ T733
    \/ vTaskDelay

\* the task is always scheduled again and the tick count keeps advancing
SpecLive == InitLive /\ [][NextLive]_vars /\ WF_vars(NextLive)

\* ---- properties ---------------------------------------------------------
\* no handler and no tick is in progress
Quiescent == httpd.pc = "idle" /\ task.pc = "t722"

\* a step of timer_control_task (every one of them moves task.pc)
TaskStep == task' # task

\* a tick has run to its vTaskDelay with no handler write in between
CleanTickDone == task.pc = "t736" /\ ~hist.interfered

RelayHigh == relay_gpio = 1

\* C1: current_state equals the level last written to the relay output
\* whenever no handler and no tick is in the middle of its writes.
C1_CurrentStateIsOutput ==
    Quiescent => (relay_timer.current_state <=> RelayHigh)

\* C2: when a timer request carrying enabled:false completes, enabled is
\* false, current_state is false and the relay output is low.
C2_DisableForcesOff ==
    (httpd.pc = "h653" /\ httpd.enabled = "false")
        => /\ ~relay_timer.enabled
           /\ ~relay_timer.current_state
           /\ relay_gpio = 0

\* C3: when a relay request with state on/off completes, the relay output is
\* at that level, current_state equals that level and enabled is false.
C3_OverrideSetsAll ==
    (httpd.pc = "h596" /\ Success(httpd.state))
        => /\ relay_gpio = State
           /\ relay_timer.current_state = (State = 1)
           /\ ~relay_timer.enabled

\* C4: a tick that starts after an override has returned and before the next
\* enable request writes enabled leaves the relay output, current_state and
\* last_toggle unchanged in every one of its steps.
C4_NoTickAfterOverride ==
    [][(TaskStep /\ (hist.tickOv \/ hist'.tickOv))
          => /\ relay_gpio' = relay_gpio
             /\ relay_timer'.current_state = relay_timer.current_state
             /\ relay_timer'.last_toggle = relay_timer.last_toggle]_vars

\* a tick began under an override that left the relay high, and the clock has
\* since run past every configured duration
C4_Witness ==
    /\ task.pc = "t736" /\ hist.tickOv
    /\ RelayHigh
    /\ relay_timer.on_duration > 0
    /\ hist.age = MaxAge

\* C5: once a disable request or an override has returned (no request is in
\* progress and enabled is false, as the call left it), no step of the tick
\* that was in progress changes the relay output or current_state.
C5_NoWriteAfterForce ==
    [][(TaskStep /\ httpd.pc = "idle" /\ ~relay_timer.enabled)
          => /\ relay_gpio' = relay_gpio
             /\ relay_timer'.current_state = relay_timer.current_state]_vars

\* the step the claims give for one tick, from the state when the tick began
\* and the clock value it read
ExpectedTick(p, now) ==
    LET t == p.rt
        el == (now - t.last_toggle + Word) % Word
    IN  IF ~t.enabled THEN p
        ELSE IF t.current_state /\ el >= t.on_duration
             THEN [rt |-> [t EXCEPT !.current_state = FALSE, !.last_toggle = now],
                   gpio |-> 0]
        ELSE IF ~t.current_state /\ el >= t.off_duration
             THEN [rt |-> [t EXCEPT !.current_state = TRUE, !.last_toggle = now],
                   gpio |-> 1]
        ELSE p

\* C6: a tick that no handler write interleaves with leaves exactly the state
\* of the tick semantics: nothing when disabled, off and last_toggle = now
\* when on and elapsed >= on_duration, on and last_toggle = now when off and
\* elapsed >= off_duration, nothing otherwise; enabled and the durations are
\* never changed.
C6_TickStep ==
    CleanTickDone
        => [rt |-> relay_timer, gpio |-> relay_gpio]
             = ExpectedTick(hist.pre, task.current_time)

\* a clean tick ended an on phase of non-zero duration
C6_Witness ==
    /\ CleanTickDone
    /\ hist.pre.rt.enabled /\ hist.pre.rt.current_state
    /\ hist.pre.rt.on_duration > 0
    /\ ~relay_timer.current_state /\ relay_gpio = 0
    /\ relay_timer.last_toggle = task.current_time

\* the duration of the phase the tick found
PhaseDuration(t) == IF t.current_state THEN t.on_duration ELSE t.off_duration

\* C7: when the clock value read by a tick is below last_toggle (the clock has
\* wrapped), the elapsed value is the true time since the last toggle, so the
\* tick chooses a transition only if the duration of the phase has really
\* elapsed.
C7_WrapSafeElapsed ==
    (/\ task.pc \in {"t727", "t731"} /\ ~hist.interfered /\ hist.te # -1
     /\ task.current_time < relay_timer.last_toggle)
        => hist.te >= PhaseDuration(relay_timer)

\* C8: with the scheduler enabled, no handler write during the tick and no
\* clock wrap since the last toggle at T, the tick makes no transition when
\* now < T + duration of the phase, and when now >= T + duration it switches
\* the relay to the other level and sets last_toggle = now; the clock values
\* are then the true milliseconds.
C8_PhaseLength ==
    (CleanTickDone /\ hist.pre.rt.enabled /\ ~hist.wr)
        => LET p == hist.pre
               T == p.rt.last_toggle
               now == task.current_time
           IN  /\ now >= T
               /\ hist.te # -1 => now - T = hist.te
               /\ now < T + PhaseDuration(p.rt)
                    => /\ relay_timer = p.rt
                       /\ relay_gpio = p.gpio
               /\ now >= T + PhaseDuration(p.rt)
                    => /\ relay_timer.current_state = ~p.rt.current_state
                       /\ RelayHigh = ~p.rt.current_state
                       /\ relay_timer.last_toggle = now

\* a clean tick ended an off phase exactly when its non-zero duration was up
C8_Witness ==
    /\ CleanTickDone /\ hist.pre.rt.enabled /\ ~hist.wr
    /\ ~hist.pre.rt.current_state
    /\ hist.pre.rt.off_duration > 0
    /\ task.current_time = hist.pre.rt.last_toggle + hist.pre.rt.off_duration
    /\ relay_timer.current_state /\ RelayHigh

\* C9: a tick writes the relay at most once, whatever the durations; with the
\* scheduler enabled and the duration of the current phase 0, a tick that no
\* handler write interleaves with makes exactly one transition.
C9_ZeroDuration ==
    /\ hist.writes <= 1
    /\ (CleanTickDone /\ hist.pre.rt.enabled /\ PhaseDuration(hist.pre.rt) = 0)
          => /\ hist.writes = 1
             /\ relay_timer.current_state = ~hist.pre.rt.current_state

\* with both durations 0, a clean tick ended an on phase at once
C9_Witness ==
    /\ CleanTickDone /\ hist.pre.rt.enabled
    /\ hist.pre.rt.on_duration = 0 /\ hist.pre.rt.off_duration = 0
    /\ hist.pre.rt.current_state
    /\ hist.writes = 1 /\ ~relay_timer.current_state

\* a step of timer_handler for a body that does not carry enabled:false
EnableOrDurationStep ==
    \/ httpd.pc = "idle" /\ httpd'.pc = "h642"
    \/ /\ httpd.pc \in {"h642", "h647", "h652", "h653"}
       /\ httpd.enabled # "false"
       /\ httpd' # httpd

\* C10: no step of a timer request that enables the scheduler or changes
\* the durations writes the relay output or current_state.
C10_EnableWritesNoOutput ==
    [][EnableOrDurationStep
          => /\ relay_gpio' = relay_gpio
             /\ relay_timer'.current_state = relay_timer.current_state]_vars

\* an enable request has run to its end while the relay was on
C10_Witness ==
    /\ httpd.pc = "h653" /\ httpd.enabled = "true"
    /\ relay_timer.enabled /\ relay_timer.on_duration > 0
    /\ relay_timer.current_state /\ RelayHigh

\* ---- properties of the decoder -------------------------------------------
\* read_sensor_safe has returned to sensor_get_handler
Returned == dht.pc = "d535"

\* every bit of the frame was sampled and the byte loop ran to its end
FrameRead ==
    /\ Len(dhist.samples) = NumBytes * ByteBits
    /\ dhist.timedOut = "none"

\* C11: interrupts are enabled whenever read_sensor_safe returns; a call that
\* fails the idle check never disabled them, and every other call disabled
\* them once and re-enabled them exactly once.
C11_InterruptsRestored ==
    /\ dht.pc = "idle" => dht.intr
    /\ Returned
         => /\ dht.intr
            /\ dhist.enables = dhist.disables
            /\ dhist.disables <= 1
            /\ dhist.disables = 0
                 <=> (dht.result = "ESP_ERR_NOT_FOUND" /\ dhist.bad = "d473")

\* the call timed out waiting for a bit to end, and returned
C11_Witness ==
    /\ Returned /\ dhist.timedOut = "w458"
    /\ dhist.disables = 1 /\ dhist.enables = 1 /\ dht.intr

\* C12: the sensor pin is an input whenever read_sensor_safe returns, and it
\* is an output only while the start signal is sent.
C12_PinInputOnReturn ==
    /\ Returned => dht.dir = "input"
    /\ dht.dir = "output" => dht.pc \in {"d429", "d431", "d433"}

\* the call gave up in a bit wait, after the pin had been an output
C12_Witness ==
    /\ Returned /\ dht.result = "ESP_ERR_TIMEOUT"
    /\ Len(dhist.samples) > 0
    /\ dht.dir = "input"

\* C13: a time-out of the first handshake wait returns ESP_ERR_NOT_FOUND, a
\* time-out of any other wait returns ESP_ERR_TIMEOUT, and after a time-out
\* the call samples the line no more and goes straight to its return.
C13_ErrorNamesStep ==
    dhist.timedOut # "none"
        => /\ dht.pc \in {"d487", "d495", "d502", "d510", "d535"}
           /\ dhist.polls = 0
           /\ Returned
                => dht.result = IF dhist.timedOut = "w485"
                                THEN "ESP_ERR_NOT_FOUND" ELSE "ESP_ERR_TIMEOUT"

\* the sensor never answered the start signal
C13_Witness ==
    /\ Returned /\ dhist.timedOut = "w485"
    /\ dht.result = "ESP_ERR_NOT_FOUND"

\* (b0 + b1 + b2 + b3) mod 256, by repeated subtraction of the modulus
SumMod(d) ==
    LET sum == d[0] + d[1] + d[2] + d[3]
    IN  sum - Byte * (sum \div Byte)

\* C14: once the whole frame is read, the call succeeds iff
\* b4 = (b0 + b1 + b2 + b3) mod 256 and returns ESP_ERR_INVALID_CRC otherwise;
\* a frame that is accepted is rejected with any one byte changed.
C14_ChecksumRule ==
    (Returned /\ FrameRead)
        => /\ dht.result = "ESP_OK" <=> dht.data[4] = SumMod(dht.data)
           /\ dht.result # "ESP_OK" => dht.result = "ESP_ERR_INVALID_CRC"
           /\ dht.result = "ESP_OK"
                => \A k \in 0 .. (NumBytes - 1) : \A v \in 0 .. (Byte - 1) :
                     v # dht.data[k]
                       => LET m == [dht.data EXCEPT ![k] = v]
                          IN  m[4] # Checksum(m)

\* a frame whose byte sum exceeds one byte was accepted
C14_Witness ==
    /\ Returned /\ FrameRead /\ dht.result = "ESP_OK"
    /\ dht.data[0] + dht.data[1] + dht.data[2] + dht.data[3] >= Byte

\* C15: on every error return neither output is written, and on success both
\* are.
C15_ReadingWholeOrAbsent ==
    Returned
        => IF dht.result = "ESP_OK"
           THEN dhist.written = {"humidity", "temperature"}
           ELSE /\ dhist.written = {}
                /\ dht.humidity = 0 /\ dht.temperature = 0

\* a frame with non-zero readings failed its checksum
C15_Witness ==
    /\ Returned /\ dht.result = "ESP_ERR_INVALID_CRC"
    /\ dht.data[0] > 0 /\ dht.data[2] > 0

\* bit n of a byte
Bit(byte, n) == (byte \div (2 ^ n)) % 2

\* C16: the k-th bit sample of a call is bit 7 - (k mod 8) of byte k div 8 of
\* the decoded data, 1 for a high sample and 0 for any other, for every byte
\* the decoder has completed.
C16_BitOrder ==
    \A k \in 0 .. (Len(dhist.samples) - 1) :
        k \div ByteBits < Len(dhist.samples) \div ByteBits
            => Bit(dht.data[k \div ByteBits], (ByteBits - 1) - (k % ByteBits))
                 = IF dhist.samples[k + 1] THEN 1 ELSE 0

\* a whole frame was decoded whose first two bytes are not palindromes, with
\* one sample that was neither high nor low
C16_Witness ==
    /\ dht.pc = "d519"
    /\ dht.data[0] = 1 /\ dht.data[1] = Byte \div 2
    /\ dhist.bad = "d455"

\* C17: a call in which the driver returned a level outside {0, 1} returns
\* ESP_ERR_NOT_FOUND.
C17_BadLevelNotFound ==
    (Returned /\ dhist.bad # "none") => dht.result = "ESP_ERR_NOT_FOUND"

\* C18: no wait polls more than DHT_TIMEOUT_US + 2 times, and every call of
\* read_sensor_safe returns, whatever levels the line shows.
C18_AlwaysReturns ==
    /\ [](dht.tries <= DHT_TIMEOUT_US + 1)
    /\ (dht.pc # "idle") ~> Returned

\* the wait for the last bit of the frame ran into its bound
C18_Witness ==
    /\ Returned /\ dhist.timedOut = "w450"
    /\ Len(dhist.samples) = NumBytes * ByteBits - 1

\* C19: a successful call returns humidity = b0 + b1 * 0.1 and
\* temperature = b2 + b3 * 0.1 (in tenths), unclamped, for every byte value.
C19_ValueDerivation ==
    (Returned /\ dht.result = "ESP_OK")
        => /\ dht.humidity - dht.data[1] = 10 * dht.data[0]
           /\ dht.temperature - dht.data[3] = 10 * dht.data[2]

\* a frame of the largest integer parts was returned as decoded
C19_Witness ==
    /\ Returned /\ dht.result = "ESP_OK"
    /\ dht.data[0] = Byte - 1 /\ dht.data[2] = Byte - 1
    /\ dht.humidity >= 10 * (Byte - 1)
    /\ dht.temperature >= 10 * (Byte - 1)

\* ---- properties of the scheduler under requests --------------------------
\* a timer request has written enabled = true and not yet last_toggle
EnableRequestOpen ==
    httpd.enabled = "true" /\ httpd.pc \in {"h642", "h647", "h652"}

\* C20: no tick that read enabled = true as written by a timer request
\* decides a transition on the last_toggle (or durations) from before that
\* request: while the request is still open, a tick that began after its
\* write of enabled is not at the transition out of a phase of non-zero
\* duration.
C20_AtomicUpdate ==
    (EnableRequestOpen /\ ~hist.interfered /\ PhaseDuration(relay_timer) > 0)
        => task.pc \notin {"t727", "t731"}

\* a timer request has written last_toggle and not yet answered
TimerRequestStamped == httpd.pc = "h653"

\* C21: a timer request sets last_toggle to the clock value it reads, and the
\* phase restarts there: no tick is at the transition out of a phase of
\* non-zero duration while the clock still shows the value the request
\* wrote.
C21_RequestRestartsPhase ==
    (/\ TimerRequestStamped
     /\ hist.age = 0 /\ ~hist.wrapT
     /\ relay_timer.last_toggle = ClockMs
     /\ PhaseDuration(relay_timer) > 0)
        => task.pc \notin {"t727", "t731"}

\* a step of relay_post_handler on a body with neither state on nor state off
MalformedOverrideStep ==
    \/ /\ httpd.pc = "idle"
       /\ httpd'.pc \in {"h593", "h596"}
       /\ httpd'.state = "none"
    \/ /\ httpd.pc \in {"h593", "h596"}
       /\ httpd.state = "none"
       /\ httpd' # httpd

\* C23: a relay request whose body has neither state on nor state off is
\* answered with an error and none of its steps changes relay_timer or the
\* relay output.
C23_MalformedOverrideNoEffect ==
    [][MalformedOverrideStep
          => /\ relay_timer' = relay_timer
             /\ relay_gpio' = relay_gpio
             /\ httpd.pc = "h596" => Response(httpd.state) = "error"
             /\ httpd.pc # "h593"]_vars

\* a malformed override is being answered while the scheduler is enabled and
\* the relay is on
C23_Witness ==
    /\ httpd.pc = "h596" /\ httpd.state = "none"
    /\ relay_timer.enabled /\ relay_timer.current_state /\ RelayHigh

\* C22: with the scheduler enabled and no request arriving, the relay output
\* changes level again and again: it is high infinitely often and low
\* infinitely often, for every pair of durations.
C22_RelayKeepsToggling ==
    /\ []<>(relay_gpio = 1)
    /\ []<>(relay_gpio = 0)
====
